---- MODULE Spec2Model ----
(***************************************************************************)
(* Model of gokrazy kernel-amd64's two cooperating binaries:               *)
(*   - amd64-build-kernel   (cmd/amd64-build-kernel/build.go), the         *)
(*     in-container builder: download, untar, applyPatches, chdir,         *)
(*     compile (defconfig, overlay append, olddefconfig, bzImage),         *)
(*     copyFile to /tmp/buildresult/vmlinuz;                               *)
(*   - the host-side wrapper (second package of addendum.go): detect the   *)
(*     container executable, stage a temporary build context, render the   *)
(*     Dockerfile, build the image, run the container, copy vmlinuz back,  *)
(*     prune build/source entries and replace the host module directory.   *)
(* A behaviour is one run of one of the two binaries (variable binary).    *)
(* External commands (make, patch, tar, go, podman/docker, rm, cp) and the *)
(* file system are the environment: their outcomes are chosen with \E.     *)
(***************************************************************************)
EXTENDS Integers, Sequences, FiniteSets, TLC

\* ------------------------------------------------------------------ bounds
MaxPatches == 3      \* patch files *.patch that may lie in the builder's cwd
MaxBytes == 2        \* longest file content, in bytes
MaxBaseline == 2     \* most lines `make defconfig` writes to .config
OverlaySize == 2     \* entries of configAddendumMap that are modelled
MaxVersions == 1     \* kernel versions under lib/modules

\* ------------------------------------------------------------------ helpers
Range(s) == {s[i] : i \in 1..Len(s)}

IsPrefix(s, t) == Len(s) <= Len(t) /\ SubSeq(t, 1, Len(s)) = s

Min(S) == CHOOSE x \in S : \A y \in S : x <= y

RECURSIVE SortedSeq(_)
\* the elements of a finite set of integers in increasing order
SortedSeq(S) == IF S = {} THEN << >>
                ELSE <<Min(S)>> \o SortedSeq(S \ {Min(S)})

RECURSIVE Flatten(_)
Flatten(ss) == IF ss = << >> THEN << >> ELSE Head(ss) \o Flatten(Tail(ss))

\* all orderings (sequences without repetition) of a finite set
Orderings(S) == {s \in [1..Cardinality(S) -> S] : Range(s) = S}

\* ------------------------------------------------------------------ files
\* A file: whether it exists, its bytes, and its mode as Go's os.FileMode
\* (permission bits in the low 9 bits, ModeSetuid at bit 23).
ModeSetuid == 2^23
Perm(m) == m % 512

Byte == {0, 1}
Contents == UNION {[1..n -> Byte] : n \in 0..MaxBytes}
\* 0644, 0600 and setuid 0755
Modes == {420, 384, ModeSetuid + 493}

NoFile == [exists |-> FALSE, bytes |-> << >>, mode |-> 0]
File(b, m) == [exists |-> TRUE, bytes |-> b, mode |-> m]

\* os.Create: O_RDWR|O_CREATE|O_TRUNC with 0666, less the umask 022; an
\* existing file is truncated and keeps its mode.
CreateMode == 420
OsCreate(f) == File(<< >>, IF f.exists THEN f.mode ELSE CreateMode)

\* (*File).Chmod(mode): syscallMode keeps the permission bits and the
\* setuid/setgid/sticky bits of a FileMode.
Chmod(f, m) == [f EXCEPT !.mode = Perm(m) + (IF m >= ModeSetuid THEN ModeSetuid ELSE 0)]

CopyFaults == {"none", "create", "open", "copy", "stat", "chmod", "close"}

\* a copyFile that leaves out out.Chmod(st.Mode())
copyFileNoChmod(dest, src, fault, n) ==
    IF fault = "create" THEN [err |-> TRUE, dest |-> dest, opened |-> FALSE]
    ELSE LET out == OsCreate(dest) IN
      IF fault = "open" \/ ~src.exists THEN [err |-> TRUE, dest |-> out, opened |-> FALSE]
      ELSE IF fault = "copy"
        THEN [err |-> TRUE, dest |-> [out EXCEPT !.bytes = SubSeq(src.bytes, 1, n)],
              opened |-> TRUE]
      ELSE [err |-> fault \in {"stat", "chmod", "close"},
            dest |-> [out EXCEPT !.bytes = src.bytes], opened |-> TRUE]

\* a copyFile that opens the source before it creates the destination
copyFileOpenFirst(dest, src, fault, n) ==
    IF fault = "open" \/ ~src.exists THEN [err |-> TRUE, dest |-> dest, opened |-> FALSE]
    ELSE IF fault = "create" THEN [err |-> TRUE, dest |-> dest, opened |-> TRUE]
    ELSE LET out == OsCreate(dest) IN
      IF fault = "copy"
        THEN [err |-> TRUE, dest |-> [out EXCEPT !.bytes = SubSeq(src.bytes, 1, n)],
              opened |-> TRUE]
      ELSE LET copied == [out EXCEPT !.bytes = src.bytes] IN
        IF fault \in {"stat", "chmod"} THEN [err |-> TRUE, dest |-> copied, opened |-> TRUE]
        ELSE [err |-> fault = "close", dest |-> Chmod(copied, src.mode), opened |-> TRUE]

\* copyFile(dest, src) on two different files. fault names the system call
\* that fails (none: all succeed), n the bytes io.Copy wrote before failing.
\* The result is the error flag, the destination file left behind and
\* whether the source was opened.
copyFile(dest, src, fault, n) ==
    IF fault = "create" THEN [err |-> TRUE, dest |-> dest, opened |-> FALSE]
    ELSE LET out == OsCreate(dest) IN
      IF fault = "open" \/ ~src.exists THEN [err |-> TRUE, dest |-> out, opened |-> FALSE]
      ELSE IF fault = "copy"
        THEN [err |-> TRUE, dest |-> [out EXCEPT !.bytes = SubSeq(src.bytes, 1, n)],
              opened |-> TRUE]
      ELSE LET copied == [out EXCEPT !.bytes = src.bytes] IN
        IF fault \in {"stat", "chmod"} THEN [err |-> TRUE, dest |-> copied, opened |-> TRUE]
        ELSE [err |-> fault = "close", dest |-> Chmod(copied, src.mode), opened |-> TRUE]

\* the (fault, n) pairs that can happen when copying src
CopyRuns(src) ==
    {<<f, n>> \in CopyFaults \X (0..MaxBytes) :
        IF f = "copy" THEN n <= Len(src.bytes) ELSE n = 0}

\* ------------------------------------------------------------------ state
VARIABLES
    binary,        \* which binary this run is: "builder" or "wrapper"
    pc,            \* the statement of main about to run; "exited" at the end
    exitCode,      \* the process's exit status; -1 while it runs
    steps,         \* the statements of main run so far, in order, each with
                   \* whether it returned an error
    \* the result directory: /tmp/buildresult in the container, which is the
    \* wrapper's temporary directory on the host
    resVmlinuz,    \* the file vmlinuz in it
    resModules,    \* the tree lib/modules in it
    \* builder
    archive,       \* the downloaded tarball: "none", "empty", "partial", "full"
    extracted,     \* whether tar unpacked the source directory
    cwdPatches,    \* the *.patch files in the working directory
    unreadable,    \* those of them os.Open fails on
    badPatches,    \* those of them patch -p1 rejects
    applied,       \* the patches applied to the source tree, in order
    attempted,     \* the patches handed to patch -p1, in order
    cwd,           \* "work" or "srcdir"
    baseline,      \* what make defconfig wrote to .config
    overlayOrder,  \* the order in which range iterated configAddendumMap
    config,        \* the content of .config
    bzImage,       \* arch/x86/boot/bzImage
    lastCopy,      \* the last copyFile call: its arguments and its result
    \* wrapper
    pathEnv,       \* podman and docker on $PATH: "absent", "plain" (a regular
                   \* file), "shim" (a symlink to podman) or "broken" (a
                   \* symlink EvalSymlinks fails on)
    override,      \* the value of -overwrite_container_executable
    executable,    \* the variable executable of main
    execName,      \* filepath.Base(executable)
    tmpExists,     \* whether the directory made by ioutil.TempDir exists
    tmpBinary,     \* whether go install put amd64-build-kernel into it
    kernelPath,    \* where find located vmlinuz: "cwd", "gopath" or "none"
    libPath,       \* where find located lib
    dockerfile,    \* the Dockerfile in tmp: "none", "empty", "partial", "rendered"
    buildCmd,      \* the command name the image was built with, or "none"
    runCmd,        \* the container run command, or NoCmd
    produced,      \* the module tree the container run left in tmp
    hostKernel,    \* the host's vmlinuz, at kernelPath
    hostModules    \* the host's module directory libPath/modules

ctl == <<binary, pc, exitCode, steps>>
res == <<resVmlinuz, resModules>>
patchVars == <<cwdPatches, unreadable, badPatches, applied, attempted>>
configVars == <<baseline, overlayOrder, config>>
bvars == <<archive, extracted, patchVars, cwd, configVars, bzImage>>
detectVars == <<pathEnv, override, executable, execName>>
stageVars == <<tmpExists, tmpBinary, kernelPath, libPath, dockerfile>>
containerVars == <<buildCmd, runCmd, produced>>
hostVars == <<hostKernel, hostModules>>
wvars == <<detectVars, stageVars, containerVars, hostVars>>
vars == <<ctl, res, bvars, lastCopy, wvars>>

\* ------------------------------------------------------------------ control
\* `if err != nil { log.Fatal(err) }` after a statement of main: log.Fatal
\* prints and calls os.Exit(1), which runs no deferred function; without an
\* error main goes on to statement next.
FatalIgnored(err, next) == [pc |-> next, exitCode |-> -1]

FatalIf(err, next) ==
    IF err THEN [pc |-> "exited", exitCode |-> 1]
    ELSE [pc |-> next, exitCode |-> -1]

\* statement step of main runs, with error err, and main goes on to next
Run(step, err, next) ==
    LET c == FatalIf(err, next) IN
    /\ pc' = c.pc
    /\ exitCode' = c.exitCode
    /\ steps' = Append(steps, [step |-> step, err |-> err])
    /\ binary' = binary

At(bin, step) == binary = bin /\ pc = step

\* ------------------------------------------------------------------ builder
BuilderSteps == <<"download", "untar", "applyPatches", "chdir", "defconfig",
                  "overlay", "olddefconfig", "bzImage", "copyFile">>

\* downloadKernel: os.Create, http.Get, the status check, io.Copy, Close
DownloadFaults == {"none", "create", "get", "status", "copy", "close"}
downloadKernel(fault) ==
    [err |-> fault # "none",
     archive |-> CASE fault = "create" -> "none"
                   [] fault \in {"get", "status"} -> "empty"
                   [] fault = "copy" -> "partial"
                   [] OTHER -> "full"]

Download ==
    /\ At("builder", "download")
    /\ \E fault \in DownloadFaults :
         LET r == downloadKernel(fault) IN
         /\ archive' = r.archive
         /\ Run("download", r.err, "untar")
    /\ UNCHANGED <<res, extracted, patchVars, cwd, configVars, bzImage, lastCopy, wvars>>

\* tar xf of the downloaded archive
Untar ==
    /\ At("builder", "untar")
    /\ \E ok \in BOOLEAN :
         /\ extracted' = ok
         /\ Run("untar", ~ok, "applyPatches")
    /\ UNCHANGED <<res, archive, patchVars, cwd, configVars, bzImage, lastCopy, wvars>>

\* filepath.Glob("*.patch"): the matching names, sorted. Patch files are
\* numbered by the lexical rank of their names.
PatchNames == 1..MaxPatches
Glob(files) == SortedSeq(files)

RECURSIVE applyLoopSkipping(_, _, _, _)
\* a loop that logs a failing patch and goes on to the next one
applyLoopSkipping(patches, noOpen, bad, st) ==
    IF patches = << >> THEN st
    ELSE LET p == Head(patches) IN
      IF p \in noOpen THEN applyLoopSkipping(Tail(patches), noOpen, bad, [st EXCEPT !.err = TRUE])
      ELSE IF p \in bad
        THEN applyLoopSkipping(Tail(patches), noOpen, bad,
                 [st EXCEPT !.err = TRUE, !.attempted = Append(@, p)])
      ELSE applyLoopSkipping(Tail(patches), noOpen, bad,
               [st EXCEPT !.applied = Append(@, p), !.attempted = Append(@, p)])

RECURSIVE applyLoop(_, _, _, _)
\* the loop of applyPatches over the globbed names: os.Open, then patch -p1
\* in srcdir with the file as stdin; the first error is returned
applyLoop(patches, noOpen, bad, st) ==
    IF patches = << >> THEN st
    ELSE LET p == Head(patches) IN
      IF p \in noOpen THEN [st EXCEPT !.err = TRUE]
      ELSE IF p \in bad
        THEN [st EXCEPT !.err = TRUE, !.attempted = Append(@, p)]
      ELSE applyLoop(Tail(patches), noOpen, bad,
               [st EXCEPT !.applied = Append(@, p), !.attempted = Append(@, p)])

applyPatches(files, noOpen, bad) ==
    applyLoop(Glob(files), noOpen, bad,
              [err |-> FALSE, applied |-> << >>, attempted |-> << >>])

ApplyPatches ==
    /\ At("builder", "applyPatches")
    /\ \E files \in SUBSET PatchNames :
       \E noOpen \in SUBSET files :
       \E bad \in SUBSET (files \ noOpen) :
         LET r == applyPatches(files, noOpen, bad) IN
         /\ cwdPatches' = files
         /\ unreadable' = noOpen
         /\ badPatches' = bad
         /\ applied' = r.applied
         /\ attempted' = r.attempted
         /\ Run("applyPatches", r.err, "chdir")
    /\ UNCHANGED <<res, archive, extracted, cwd, configVars, bzImage, lastCopy, wvars>>

\* os.Chdir(srcdir)
Chdir ==
    /\ At("builder", "chdir")
    /\ \E ok \in BOOLEAN :
         /\ cwd' = IF ok THEN "srcdir" ELSE cwd
         /\ Run("chdir", ~ok, "defconfig")
    /\ UNCHANGED <<res, archive, extracted, patchVars, configVars, bzImage, lastCopy, wvars>>

\* ---- compile(): .config is a sequence of tokens, "\n" ending each line
NL == "\n"

RECURSIVE Join(_, _)
\* strings.Join(elems, sep)
Join(elems, sep) ==
    IF elems = << >> THEN << >>
    ELSE IF Len(elems) = 1 THEN elems[1]
    ELSE elems[1] \o sep \o Join(Tail(elems), sep)

\* what fmt.Fprintln writes for one string operand
Fprintln(str) == str \o <<NL>>

RECURSIVE SplitLines(_, _)
\* the lines of a file's content, as a line reader yields them
SplitLines(content, cur) ==
    IF content = << >> THEN (IF cur = << >> THEN << >> ELSE <<cur>>)
    ELSE IF Head(content) = NL THEN <<cur>> \o SplitLines(Tail(content), << >>)
    ELSE SplitLines(Tail(content), Append(cur, Head(content)))

Lines(content) == SplitLines(content, << >>)

\* entries of configAddendumMap (addendum.go lines 301, 6, 4, 7)
AddendumEntries ==
    << <<"CONFIG_WERROR", "n">>,
       <<"CONFIG_IPV6", "y">>,
       <<"CONFIG_LOCALVERSION", "\"-v1-thatwebsite\"">>,
       <<"CONFIG_DYNAMIC_DEBUG", "y">> >>

configAddendumMap ==
    [k \in {AddendumEntries[i][1] : i \in 1..OverlaySize} |->
        (CHOOSE e \in Range(AddendumEntries) : e[1] = k)[2]]

\* lines make defconfig may write: one key the overlay also sets, one it
\* does not
BaselineLines == {<<"CONFIG_WERROR", "=", "y">>, <<"CONFIG_64BIT", "=", "y">>}
Baselines == UNION {[1..n -> BaselineLines] : n \in 0..MaxBaseline}
Content(lines) == Flatten([i \in 1..Len(lines) |-> lines[i] \o <<NL>>])

\* make defconfig
Defconfig ==
    /\ At("builder", "defconfig")
    /\ \E ok \in BOOLEAN : \E lines \in Baselines :
         /\ ok \/ lines = << >>
         /\ baseline' = Content(lines)
         /\ config' = Content(lines)
         /\ Run("defconfig", ~ok, "overlay")
    /\ UNCHANGED <<res, archive, extracted, patchVars, cwd, overlayOrder, bzImage, lastCopy, wvars>>

\* the text compile() builds from the map, iterated in the given order
AddendumText(order) ==
    Fprintln(Join([i \in 1..Len(order) |-> <<order[i], "=", configAddendumMap[order[i]]>>],
                  <<NL>>))

OverlayFaults == {"none", "open", "write", "close"}

\* an overlay step that opens .config with O_TRUNC
overlayTruncating(cfg, order, fault, n) ==
    IF fault = "open" THEN [err |-> TRUE, config |-> cfg]
    ELSE IF fault = "write"
      THEN [err |-> TRUE, config |-> SubSeq(AddendumText(order), 1, n)]
    ELSE [err |-> fault = "close", config |-> AddendumText(order)]

\* compile(), lines 71-87: os.OpenFile(".config", O_APPEND|O_WRONLY), the
\* range over configAddendumMap, Fprintln of the joined lines, Close.
\* A failing write leaves the first n tokens of the text appended.
overlayAppend(cfg, order, fault, n) ==
    IF fault = "open" THEN [err |-> TRUE, config |-> cfg]
    ELSE IF fault = "write"
      THEN [err |-> TRUE, config |-> cfg \o SubSeq(AddendumText(order), 1, n)]
    ELSE [err |-> fault = "close", config |-> cfg \o AddendumText(order)]

Overlay ==
    /\ At("builder", "overlay")
    /\ \E order \in Orderings(DOMAIN configAddendumMap) :
       \E fault \in OverlayFaults :
       \E n \in 0..(Len(AddendumText(order)) - 1) :
         LET r == overlayAppend(config, order, fault, n) IN
         /\ fault = "write" \/ n = 0
         /\ overlayOrder' = order
         /\ config' = r.config
         /\ Run("overlay", r.err, "olddefconfig")
    /\ UNCHANGED <<res, archive, extracted, patchVars, cwd, baseline, bzImage, lastCopy, wvars>>

KeyOf(line) == IF line = << >> THEN "" ELSE line[1]

RECURSIVE LastWins(_)
LastWins(ls) ==
    IF ls = << >> THEN << >>
    ELSE IF \E j \in 2..Len(ls) : KeyOf(ls[j]) = KeyOf(ls[1]) THEN LastWins(Tail(ls))
    ELSE <<ls[1]>> \o LastWins(Tail(ls))

\* make olddefconfig rewrites .config with one line per option, the last
\* assignment of an option winning
Olddefconfig ==
    /\ At("builder", "olddefconfig")
    /\ \E ok \in BOOLEAN :
         /\ config' = IF ok THEN Content(LastWins(Lines(config))) ELSE config
         /\ Run("olddefconfig", ~ok, "bzImage")
    /\ UNCHANGED <<res, archive, extracted, patchVars, cwd, baseline, overlayOrder,
                   bzImage, lastCopy, wvars>>

\* make bzImage -jN: the only make target compile() builds
MakeBzImage ==
    /\ At("builder", "bzImage")
    /\ \E ok \in BOOLEAN : \E b \in Contents : \E m \in Modes :
         /\ ok \/ (b = << >> /\ m = CreateMode)
         /\ bzImage' = IF ok THEN File(b, m) ELSE NoFile
         /\ Run("bzImage", ~ok, "copyFile")
    /\ UNCHANGED <<res, archive, extracted, patchVars, cwd, configVars, lastCopy, wvars>>

NoCopy == [called |-> FALSE, src |-> NoFile, before |-> NoFile, after |-> NoFile,
           fault |-> "none", err |-> FALSE, srcOpened |-> FALSE]
CopyCall(dest, src, run) ==
    LET r == copyFile(dest, src, run[1], run[2]) IN
    [called |-> TRUE, src |-> src, before |-> dest, after |-> r.dest,
     fault |-> run[1], err |-> r.err, srcOpened |-> r.opened]

\* copyFile("/tmp/buildresult/vmlinuz", "arch/x86/boot/bzImage")
StageVmlinuz ==
    /\ At("builder", "copyFile")
    /\ \E run \in CopyRuns(bzImage) :
         LET c == CopyCall(resVmlinuz, bzImage, run) IN
         /\ lastCopy' = c
         /\ resVmlinuz' = c.after
         /\ Run("copyFile", c.err, "return")
    /\ UNCHANGED <<resModules, bvars, wvars>>

\* ------------------------------------------------------------------ wrapper
WrapperSteps == <<"detect", "tempDir", "goInstall", "find", "copyPatches",
                  "renderDockerfile", "buildImage", "runContainer", "collect",
                  "removeSymlinks", "rm", "cp">>

\* paths are sequences of components; the empty string is << >>
Base(path) == IF path = << >> THEN "." ELSE path[Len(path)]

choices == <<"podman", "docker">>
PodmanPath == <<"usr", "bin", "podman">>

PathEnvs ==
    {e \in [{"podman", "docker"} -> {"absent", "plain", "shim", "broken"}] :
        e["podman"] # "shim"}

\* exec.LookPath(exe)
LookPath(env, exe) ==
    IF env[exe] = "absent" THEN [err |-> TRUE, path |-> << >>]
    ELSE [err |-> FALSE, path |-> <<"usr", "bin", exe>>]

\* filepath.EvalSymlinks(p) for a path LookPath returned
EvalSymlinks(env, p) ==
    CASE env[Base(p)] = "plain" -> [err |-> FALSE, path |-> p]
      [] env[Base(p)] = "shim" -> [err |-> FALSE, path |-> PodmanPath]
      [] OTHER -> [err |-> TRUE, path |-> << >>]

RECURSIVE probeSkippingBroken(_, _)
\* a probe that goes on to the next choice when EvalSymlinks fails
probeSkippingBroken(env, cs) ==
    IF cs = << >> THEN [err |-> TRUE, path |-> << >>]
    ELSE LET p == LookPath(env, Head(cs)) IN
      IF p.err \/ EvalSymlinks(env, p.path).err THEN probeSkippingBroken(env, Tail(cs))
      ELSE EvalSymlinks(env, p.path)

RECURSIVE probe(_, _)
\* the loop of getContainerExecutable over the choices cs
probe(env, cs) ==
    IF cs = << >> THEN [err |-> TRUE, path |-> << >>]
    ELSE LET p == LookPath(env, Head(cs)) IN
      IF p.err THEN probe(env, Tail(cs))
      ELSE EvalSymlinks(env, p.path)

getContainerExecutable(env) == probe(env, choices)

Overrides == {<< >>, <<"podman">>, <<"usr", "local", "bin", "docker">>}

\* main, lines 417-428: flag.Parse, getContainerExecutable and its
\* log.Fatal, then the override, then filepath.Base
Detect ==
    /\ At("wrapper", "detect")
    /\ \E env \in PathEnvs : \E flag \in Overrides :
         LET r == getContainerExecutable(env)
             exe == IF flag # << >> THEN flag ELSE r.path IN
         /\ pathEnv' = env
         /\ override' = flag
         /\ executable' = IF r.err THEN << >> ELSE exe
         /\ execName' = IF r.err THEN "" ELSE Base(exe)
         /\ Run("detect", r.err, "tempDir")
    /\ UNCHANGED <<res, bvars, lastCopy, stageVars, containerVars, hostVars>>

\* ioutil.TempDir("/tmp", ...) and defer os.RemoveAll(tmp)
TempDir ==
    /\ At("wrapper", "tempDir")
    /\ \E ok \in BOOLEAN :
         /\ tmpExists' = ok
         /\ Run("tempDir", ~ok, "goInstall")
    /\ UNCHANGED <<res, bvars, lastCopy, detectVars, tmpBinary, kernelPath, libPath,
                   dockerfile, containerVars, hostVars>>

\* go install .../cmd/amd64-build-kernel with GOBIN=tmp
GoInstall ==
    /\ At("wrapper", "goInstall")
    /\ \E ok \in BOOLEAN :
         /\ tmpBinary' = ok
         /\ Run("goInstall", ~ok, "find")
    /\ UNCHANGED <<res, bvars, lastCopy, detectVars, tmpExists, kernelPath, libPath,
                   dockerfile, containerVars, hostVars>>

patchFiles == << >>

\* find(filename): the working directory first, then the GOPATH source tree
find(places) ==
    IF "cwd" \in places THEN [err |-> FALSE, path |-> "cwd"]
    ELSE IF "gopath" \in places THEN [err |-> FALSE, path |-> "gopath"]
    ELSE [err |-> TRUE, path |-> "none"]

\* main, lines 447-464: find for every patch file, for vmlinuz and for lib
Find ==
    /\ At("wrapper", "find")
    /\ \E patchesFound \in BOOLEAN :
       \E kernelAt \in SUBSET {"cwd", "gopath"} :
       \E libAt \in SUBSET {"cwd", "gopath"} :
         LET patchErr == patchFiles # << >> /\ ~patchesFound
             k == find(kernelAt)
             l == find(libAt) IN
         /\ patchesFound \/ patchFiles # << >>
         /\ kernelPath' = IF patchErr THEN "none" ELSE k.path
         /\ libPath' = IF patchErr \/ k.err THEN "none" ELSE l.path
         /\ Run("find", patchErr \/ k.err \/ l.err, "copyPatches")
    /\ UNCHANGED <<res, bvars, lastCopy, detectVars, tmpExists, tmpBinary, dockerfile,
                   containerVars, hostVars>>

\* main, lines 468-472: copyFile of every patch path into tmp
CopyPatches ==
    /\ At("wrapper", "copyPatches")
    /\ \E failing \in SUBSET Range(patchFiles) :
         Run("copyPatches", failing # {}, "renderDockerfile")
    /\ UNCHANGED <<res, bvars, lastCopy, wvars>>

\* main, lines 474-499: user.Current, os.Create of tmp/Dockerfile, the
\* template's Execute and Close
RenderFaults == {"none", "user", "create", "execute", "close"}
RenderDockerfile ==
    /\ At("wrapper", "renderDockerfile")
    /\ \E fault \in RenderFaults :
         /\ dockerfile' = CASE fault \in {"user", "create"} -> "none"
                            [] fault = "execute" -> "partial"
                            [] OTHER -> "rendered"
         /\ Run("renderDockerfile", fault # "none", "buildImage")
    /\ UNCHANGED <<res, bvars, lastCopy, detectVars, tmpExists, tmpBinary, kernelPath,
                   libPath, containerVars, hostVars>>

\* <execName> build --rm=true --tag=amd64-rebuild-kernel . in tmp
BuildImage ==
    /\ At("wrapper", "buildImage")
    /\ \E ok \in BOOLEAN :
         /\ buildCmd' = execName
         /\ Run("buildImage", ~ok, "runContainer")
    /\ UNCHANGED <<res, bvars, lastCopy, detectVars, stageVars, runCmd, produced, hostVars>>

\* ---- module trees: a set of entries <<version, name>> under lib/modules
NoTree == [exists |-> FALSE, entries |-> {}]
Tree(es) == [exists |-> TRUE, entries |-> es]
Versions == 1..MaxVersions
EntryNames == {"build", "source", "kernel"}
ProducedTrees == {NoTree} \cup {Tree(es) : es \in SUBSET (Versions \X EntryNames)}
\* what a container run can leave as vmlinuz in the mounted directory
ProducedImages == {NoFile, File(<<1, 0>>, 493), File(<<0>>, ModeSetuid + 493)}
\* the host's files before the run: version 0 is the kernel being replaced
OldKernel == File(<<0, 0>>, 420)
OldModules == Tree({<<0, "build">>, <<0, "kernel">>})

NoCmd == [exe |-> << >>, userns |-> FALSE]

\* <executable> run [--userns=keep-id] --rm --volume tmp:/tmp/buildresult:Z
\* amd64-rebuild-kernel. The wrapper sees the command's exit status only;
\* what the container wrote into the mounted directory is the environment's.
RunContainer ==
    /\ At("wrapper", "runContainer")
    /\ \E ok \in BOOLEAN : \E img \in ProducedImages : \E tree \in ProducedTrees :
         /\ ok \/ (img = NoFile /\ tree = NoTree)
         /\ runCmd' = [exe |-> executable, userns |-> execName = "podman"]
         /\ resVmlinuz' = img
         /\ resModules' = tree
         /\ produced' = tree
         /\ Run("runContainer", ~ok, "collect")
    /\ UNCHANGED <<bvars, lastCopy, detectVars, stageVars, buildCmd, hostVars>>

\* copyFile(kernelPath, tmp/vmlinuz)
Collect ==
    /\ At("wrapper", "collect")
    /\ \E run \in CopyRuns(resVmlinuz) :
         LET c == CopyCall(hostKernel, resVmlinuz, run) IN
         /\ lastCopy' = c
         /\ hostKernel' = c.after
         /\ Run("collect", c.err, "removeSymlinks")
    /\ UNCHANGED <<res, bvars, detectVars, stageVars, containerVars, hostModules>>

\* filepath.Glob(tmp/lib/modules/*/subdir): the matches, sorted
GlobSubdir(tree, subdir) ==
    LET vs == SortedSeq({v \in Versions : <<v, subdir>> \in tree.entries}) IN
    [i \in 1..Len(vs) |-> <<vs[i], subdir>>]

\* a pruning loop that forgets the source subdirectory
RemovalsBuildOnly(tree) == GlobSubdir(tree, "build")

\* main, lines 544-554: the entries os.Remove is called on, in order
Removals(tree) == GlobSubdir(tree, "build") \o GlobSubdir(tree, "source")

\* the first k removals succeed; an error of the next one is fatal
RemoveSymlinks ==
    /\ At("wrapper", "removeSymlinks")
    /\ \E k \in 0..Len(Removals(resModules)) :
         /\ resModules' = [resModules EXCEPT
                              !.entries = @ \ Range(SubSeq(Removals(resModules), 1, k))]
         /\ Run("removeSymlinks", k < Len(Removals(resModules)), "rm")
    /\ UNCHANGED <<resVmlinuz, bvars, lastCopy, wvars>>

\* rm -rf libPath/modules; a failing rm may have emptied the directory
RmModules ==
    /\ At("wrapper", "rm")
    /\ \E outcome \in {"ok", "failed", "failedEmptied"} :
         /\ hostModules' = CASE outcome = "ok" -> NoTree
                             [] outcome = "failed" -> hostModules
                             [] OTHER -> Tree({})
         /\ Run("rm", outcome # "ok", "cp")
    /\ UNCHANGED <<res, bvars, lastCopy, detectVars, stageVars, containerVars, hostKernel>>

\* what cp -r leaves at libPath/modules when it fails: nothing, or the
\* directory with only some of the entries
CpFailures(tree) ==
    {NoTree} \cup
    (IF tree.exists THEN {Tree(es) : es \in (SUBSET tree.entries) \ {tree.entries}}
     ELSE {})

\* cp -r tmp/lib/modules libPath
CpModules ==
    /\ At("wrapper", "cp")
    /\ \E ok \in BOOLEAN : \E left \in CpFailures(resModules) :
         /\ ok => (resModules.exists /\ left = NoTree)
         /\ hostModules' = IF ok THEN Tree(resModules.entries) ELSE left
         /\ Run("cp", ~ok, "return")
    /\ UNCHANGED <<res, bvars, lastCopy, detectVars, stageVars, containerVars, hostKernel>>

\* os.RemoveAll(tmp), the call main defers after TempDir
RemoveAllTmp == [tmpExists |-> FALSE, tmpBinary |-> FALSE, dockerfile |-> "none",
                 resVmlinuz |-> NoFile, resModules |-> NoTree]

\* main returns: the deferred calls run and the process exits 0
MainReturn ==
    /\ pc = "return"
    /\ pc' = "exited"
    /\ exitCode' = 0
    /\ IF binary = "wrapper"
       THEN /\ tmpExists' = RemoveAllTmp.tmpExists
            /\ tmpBinary' = RemoveAllTmp.tmpBinary
            /\ dockerfile' = RemoveAllTmp.dockerfile
            /\ resVmlinuz' = RemoveAllTmp.resVmlinuz
            /\ resModules' = RemoveAllTmp.resModules
       ELSE UNCHANGED <<tmpExists, tmpBinary, dockerfile, res>>
    /\ UNCHANGED <<binary, steps, bvars, lastCopy, detectVars, kernelPath, libPath,
                   containerVars, hostVars>>

\* ------------------------------------------------------------------ spec
Init ==
    /\ binary \in {"builder", "wrapper"}
    /\ pc = IF binary = "builder" THEN "download" ELSE "detect"
    /\ exitCode = -1
    /\ steps = << >>
    /\ resVmlinuz \in (IF binary = "builder" THEN {NoFile, File(<<1>>, 384)} ELSE {NoFile})
    /\ resModules = NoTree
    /\ archive = "none"
    /\ extracted = FALSE
    /\ cwdPatches = {}
    /\ unreadable = {}
    /\ badPatches = {}
    /\ applied = << >>
    /\ attempted = << >>
    /\ cwd = "work"
    /\ baseline = << >>
    /\ overlayOrder = << >>
    /\ config = << >>
    /\ bzImage = NoFile
    /\ lastCopy = NoCopy
    /\ pathEnv = [e \in {"podman", "docker"} |-> "absent"]
    /\ override = << >>
    /\ executable = << >>
    /\ execName = ""
    /\ tmpExists = FALSE
    /\ tmpBinary = FALSE
    /\ kernelPath = "none"
    /\ libPath = "none"
    /\ dockerfile = "none"
    /\ buildCmd = "none"
    /\ runCmd = NoCmd
    /\ produced = NoTree
    /\ hostKernel = OldKernel
    /\ hostModules = OldModules

Next ==
    \/ Download
    \/ Untar
    \/ ApplyPatches
    \/ Chdir
    \/ Defconfig
    \/ Overlay
    \/ Olddefconfig
    \/ MakeBzImage
    \/ StageVmlinuz
    \/ Detect
    \/ TempDir
    \/ GoInstall
    \/ Find
    \/ CopyPatches
    \/ RenderDockerfile
    \/ BuildImage
    \/ RunContainer
    \/ Collect
    \/ RemoveSymlinks
    \/ RmModules
    \/ CpModules
    \/ MainReturn

Spec == Init /\ [][Next]_vars

\* ------------------------------------------------------------------ claims
StepNames == [i \in 1..Len(steps) |-> steps[i].step]
Ran(step) == \E i \in 1..Len(steps) : steps[i].step = step
Succeeded(step) == \E i \in 1..Len(steps) : steps[i] = [step |-> step, err |-> FALSE]
Failed(step) == \E i \in 1..Len(steps) : steps[i] = [step |-> step, err |-> TRUE]

NeitherOnPath == pathEnv["podman"] = "absent" /\ pathEnv["docker"] = "absent"

\* C1: in the wrapper a non-empty -overwrite_container_executable bypasses
\* detection and always wins: whatever is on the search path, main gets past
\* the detection step with executable equal to the override, and the fatal
\* exit of detection happens only when neither podman nor docker is present
\* and no override is given.
C1_OverrideAlwaysWins ==
    (binary = "wrapper" /\ Ran("detect")) =>
        /\ override # << >> => (Succeeded("detect") /\ executable = override)
        /\ (Failed("detect") /\ NeitherOnPath) => override = << >>

\* C2: once the wrapper has created its temporary directory, the directory
\* is gone when the process has exited, after success and after any failure.
C2_TmpRemovedOnEveryExit ==
    (binary = "wrapper" /\ Succeeded("tempDir") /\ pc = "exited") => ~tmpExists

\* C3: in both binaries a failing step ends the process at once with a
\* non-zero exit and no later step runs; the exit status is 0 only when
\* every step of the binary ran and none failed.
C3_FailFast ==
    LET all == IF binary = "builder" THEN BuilderSteps ELSE WrapperSteps IN
    /\ IsPrefix(StepNames, all)
    /\ \A i \in 1..Len(steps) :
         steps[i].err => (i = Len(steps) /\ pc = "exited" /\ exitCode = 1)
    /\ exitCode = 0 => (StepNames = all /\ \A i \in 1..Len(steps) : ~steps[i].err)
    /\ pc = "exited" <=> exitCode # -1

C3_Witness ==
    /\ binary = "builder"
    /\ Failed("chdir")
    /\ pc = "exited"
    /\ exitCode = 1
    /\ config = << >>

C5_BuilderStagesImageAndModules ==
    (binary = "builder" /\ exitCode = 0) => (resVmlinuz.exists /\ resModules.exists)

Max(S) == CHOOSE x \in S : \A y \in S : x >= y
OverlayLine(k) == <<k, "=", configAddendumMap[k]>>

\* C6: right after the overlay is appended (after defconfig, before
\* olddefconfig) .config is the baseline unchanged, followed by exactly one
\* line KEY=VALUE per overlay entry, in whatever order the map was iterated;
\* so the last line assigning an overlay key carries the overlay's value.
C6_ConfigMaterialised ==
    (binary = "builder" /\ pc = "olddefconfig") =>
        LET ls == Lines(config)
            n == Len(Lines(baseline))
            keys == DOMAIN configAddendumMap IN
        /\ StepNames[Len(steps) - 1] = "defconfig"
        /\ StepNames[Len(steps)] = "overlay"
        /\ ~Ran("olddefconfig")
        /\ IsPrefix(baseline, config)
        /\ Len(ls) = n + Cardinality(keys)
        /\ SubSeq(ls, 1, n) = Lines(baseline)
        /\ \A i \in (n + 1)..Len(ls) : \E k \in keys : ls[i] = OverlayLine(k)
        /\ \A k \in keys :
             /\ Cardinality({i \in (n + 1)..Len(ls) : ls[i] = OverlayLine(k)}) = 1
             /\ ls[Max({i \in 1..Len(ls) : KeyOf(ls[i]) = k})] = OverlayLine(k)

C6_Witness ==
    /\ binary = "builder"
    /\ pc = "olddefconfig"
    /\ Lines(baseline) = << <<"CONFIG_64BIT", "=", "y">>, <<"CONFIG_WERROR", "=", "y">> >>
    /\ overlayOrder[1] = "CONFIG_IPV6"
    /\ Lines(config)[4] = <<"CONFIG_WERROR", "=", "n">>

\* C7: a copyFile(dest, src) that returns no error leaves dest existing with
\* exactly the bytes of src and src's permission bits, whether or not dest
\* existed and whatever it held.
C7_CopyFilePreserves ==
    (lastCopy.called /\ ~lastCopy.err) =>
        /\ lastCopy.after.exists
        /\ lastCopy.after.bytes = lastCopy.src.bytes
        /\ Perm(lastCopy.after.mode) = Perm(lastCopy.src.mode)
        /\ binary = "builder" => (resVmlinuz = lastCopy.after /\ bzImage = lastCopy.src)
        /\ binary = "wrapper" => hostKernel = lastCopy.after

C7_Witness ==
    /\ lastCopy.called
    /\ ~lastCopy.err
    /\ lastCopy.before.exists
    /\ Perm(lastCopy.before.mode) # Perm(lastCopy.src.mode)
    /\ Len(lastCopy.src.bytes) = MaxBytes
    /\ lastCopy.before.bytes # lastCopy.src.bytes
    /\ lastCopy.src.mode >= ModeSetuid

\* C8: getContainerExecutable returns the symlink-resolved path of the first
\* of podman, docker found on the search path: podman's whenever podman is
\* found, docker's only when podman is absent, an error when neither is
\* found; and when resolving the first one found fails, that error is
\* returned instead of trying the next choice.
C8_DetectionOrder ==
    (binary = "wrapper" /\ Ran("detect")) =>
        LET pm == pathEnv["podman"]
            dk == pathEnv["docker"]
            expectErr == \/ pm = "broken"
                         \/ (pm = "absent" /\ dk \in {"absent", "broken"})
            expectPath == CASE pm = "plain" -> <<"usr", "bin", "podman">>
                            [] pm = "absent" /\ dk = "plain" -> <<"usr", "bin", "docker">>
                            [] pm = "absent" /\ dk = "shim" -> PodmanPath
                            [] OTHER -> << >> IN
        /\ Failed("detect") <=> expectErr
        /\ (Succeeded("detect") /\ override = << >>) => executable = expectPath

C8_Witness ==
    /\ binary = "wrapper"
    /\ pathEnv = [podman |-> "broken", docker |-> "plain"]
    /\ Failed("detect")
    /\ override = << >>

\* the wrapper's states, and the state each statement of main belongs to
Stages == <<"DETECT_RUNTIME", "STAGE_BUILD_CONTEXT", "RENDER_DOCKERFILE", "BUILD_IMAGE",
            "RUN_CONTAINER", "COLLECT_ARTIFACTS", "REPAIR_MODULE_TREE", "DONE">>
StageOf(step) ==
    CASE step = "detect" -> "DETECT_RUNTIME"
      [] step \in {"tempDir", "goInstall", "find", "copyPatches"} -> "STAGE_BUILD_CONTEXT"
      [] step = "renderDockerfile" -> "RENDER_DOCKERFILE"
      [] step = "buildImage" -> "BUILD_IMAGE"
      [] step = "runContainer" -> "RUN_CONTAINER"
      [] step = "collect" -> "COLLECT_ARTIFACTS"
      [] step \in {"removeSymlinks", "rm", "cp"} -> "REPAIR_MODULE_TREE"

RECURSIVE Dedupe(_)
\* a sequence with runs of equal neighbours collapsed
Dedupe(q) ==
    IF Len(q) <= 1 THEN q
    ELSE IF q[1] = q[2] THEN Dedupe(Tail(q))
    ELSE <<q[1]>> \o Dedupe(Tail(q))

StagesEntered ==
    Dedupe([i \in 1..Len(steps) |-> StageOf(steps[i].step)])
        \o (IF pc = "exited" /\ exitCode = 0 THEN <<"DONE">> ELSE << >>)

\* C9: the wrapper's states are entered in the order DETECT_RUNTIME,
\* STAGE_BUILD_CONTEXT, RENDER_DOCKERFILE, BUILD_IMAGE, RUN_CONTAINER,
\* COLLECT_ARTIFACTS, REPAIR_MODULE_TREE, DONE, each at most once and only
\* after everything before it succeeded; the host's boot image and module
\* directory are written only after the container run succeeded.
C9_LinearSequence ==
    binary = "wrapper" =>
        /\ IsPrefix(StagesEntered, Stages)
        /\ \A i, j \in 1..Len(steps) : i < j => (~steps[i].err /\ steps[i].step # steps[j].step)
        /\ (hostKernel # OldKernel \/ hostModules # OldModules) => Succeeded("runContainer")
        /\ (pc = "exited" /\ exitCode = 0) => \A i \in 1..Len(steps) : ~steps[i].err

C9_Witness ==
    /\ binary = "wrapper"
    /\ StagesEntered = Stages
    /\ hostKernel # OldKernel
    /\ hostModules # OldModules

Pruned(tree) == {e \in tree.entries : e[2] \notin {"build", "source"}}

\* C10: REPAIR_MODULE_TREE removes every build and source entry of the
\* produced tree, then deletes the host's module directory, then copies the
\* produced tree into place. Nothing is rolled back: when the copy fails
\* after the delete, the process exits non-zero and the host's module
\* directory is missing or holds only part of the tree; when the wrapper
\* completes, it holds the produced tree less its build and source entries.
C10_RepairModuleTree ==
    binary = "wrapper" =>
        /\ (Succeeded("removeSymlinks") /\ tmpExists) =>
               (resModules.exists = produced.exists /\ resModules.entries = Pruned(produced))
        /\ pc \in {"removeSymlinks", "rm"} => hostModules = OldModules
        /\ pc = "cp" => hostModules = NoTree
        /\ Failed("cp") =>
               /\ pc = "exited" /\ exitCode = 1
               /\ ~hostModules.exists \/ hostModules.entries \subseteq Pruned(produced)
               /\ hostModules # Tree(Pruned(produced)) \/ ~produced.exists
        /\ Succeeded("cp") => (produced.exists /\ hostModules = Tree(Pruned(produced)))

C10_Witness ==
    /\ binary = "wrapper"
    /\ Failed("cp")
    /\ exitCode = 1
    /\ produced = Tree({<<1, "build">>, <<1, "source">>, <<1, "kernel">>})
    /\ resModules = Tree({<<1, "kernel">>})
    /\ hostModules = Tree({})

\* what os.Create leaves of the destination a copyFile call found
Created(c) == File(<< >>, IF c.before.exists THEN c.before.mode ELSE CreateMode)

\* the destination of the last copyFile call, as it is on disk
DestOnDisk == IF binary = "builder" THEN resVmlinuz ELSE hostKernel

\* C11 as stated: copyFile creates or truncates the destination before it
\* opens the source and never removes it; when the destination is created
\* and the open of the source or a later copy, stat or chmod fails, copyFile
\* returns an error and the destination exists with empty or partial
\* content; when the destination cannot be created, copyFile returns an
\* error without touching the source.
C11_EmptyOrPartialOnFailure ==
    lastCopy.called =>
        LET c == lastCopy IN
        /\ c.fault = "create" => (c.err /\ ~c.srcOpened /\ c.after = c.before)
        /\ (c.fault \in {"open", "copy", "stat", "chmod"} \/ (c.fault # "create" /\ ~c.src.exists)) =>
               /\ c.err
               /\ c.after.exists
               /\ \/ c.after.bytes = << >>
                  \/ (IsPrefix(c.after.bytes, c.src.bytes) /\ c.after.bytes # c.src.bytes)

\* C11 amended: copyFile creates or truncates the destination before it
\* opens the source and never removes it. When the destination cannot be
\* created, it returns an error, the destination is as it was and the source
\* is not opened. Otherwise the destination exists and its previous content
\* is lost: it is empty when the source cannot be opened, holds the first
\* bytes of the source (possibly all) when the copy fails, and holds all of
\* the source's bytes, with the mode os.Create left, when stat or chmod
\* fails; in each of these cases an error is returned.
C11_DestLeftBehind ==
    lastCopy.called =>
        LET c == lastCopy
            noSrc == c.fault = "open" \/ ~c.src.exists IN
        /\ DestOnDisk = c.after
        /\ c.srcOpened => c.fault # "create"
        /\ c.fault = "create" => (c.err /\ ~c.srcOpened /\ c.after = c.before)
        /\ c.fault # "create" =>
               /\ c.after.exists
               /\ IsPrefix(c.after.bytes, c.src.bytes)
               /\ noSrc => (c.err /\ ~c.srcOpened /\ c.after = Created(c))
               /\ (~noSrc /\ c.fault = "copy") => (c.err /\ c.after.mode = Created(c).mode)
               /\ (~noSrc /\ c.fault \in {"stat", "chmod"}) =>
                      (c.err /\ c.after = [Created(c) EXCEPT !.bytes = c.src.bytes])

C11_Witness ==
    /\ lastCopy.called
    /\ lastCopy.err
    /\ lastCopy.fault = "copy"
    /\ lastCopy.before.exists
    /\ Len(lastCopy.src.bytes) = MaxBytes
    /\ Len(lastCopy.after.bytes) = 1
    /\ lastCopy.after.bytes # lastCopy.before.bytes
    /\ DestOnDisk = lastCopy.after
    /\ exitCode = 1

====
